---- MODULE Spec2Model ----
(***************************************************************************)
(* A model of fab's source tree walker (source_tree.py), of the C include  *)
(* marker (CPragmaInjector in tasks/c.py), of the C symbol store           *)
(* (CWorkingState in tasks/c.py) and of the C analyser (CAnalyser in       *)
(* tasks/c.py).                                                            *)
(*                                                                         *)
(* Three specifications share the module: Spec (TreeDescent.descend with   *)
(* SourceVisitor.visit), InjSpec (CPragmaInjector.line_by_line, then       *)
(* CAnalyser.run on what it yields) and StoreSpec (CWorkingState, with     *)
(* CAnalyser.run on it).  Each leaves the other parts' variables at their  *)
(* idle values.                                                            *)
(***************************************************************************)
EXTENDS Integers, Sequences, FiniteSets, Bags, TLC

VARIABLES
    source_map,     \* SourceVisitor._source_map: ordered (pattern, class) rules
    workspace,      \* SourceVisitor._workspace: the directory products go to
    files,          \* the files that exist on disk
    to_visit,       \* descend's local stack of candidates
    pc,             \* descend: "walking", "done" (returned), "aborted" (raised)
    log,            \* history: the candidates offered to visitor.visit, in order
    nid,            \* history: the number of frontier entries created so far
    failures,       \* history: the number of task failures so far
    iter,           \* history: the parity of the iterations of descend's loop
    pool,           \* the tasks a deferring handler took and has not finished
    inj_src,        \* CPragmaInjector: the lines of the decorated source
    inj_i,          \* CPragmaInjector: lines consumed and emitted so far
    inj_out,        \* CPragmaInjector: the lines yielded so far
    inj_pc,         \* CPragmaInjector: "run", "done", "raised"
    recovered,      \* CAnalyser.run: the marker lines found in inj_out
    c_symbol,       \* CWorkingState: rows of table c_symbol
    c_prerequisite, \* CWorkingState: rows of table c_prerequisite
    st_last,        \* history: the last store operation
    unit_start,     \* history: the tables before the workers' units ran
    unit_log        \* history: the units run so far, in order

walk_vars ==
    <<source_map, workspace, files, to_visit, pc, log, nid, failures, iter,
      pool>>
inj_vars == <<inj_src, inj_i, inj_out, inj_pc, recovered>>
unit_vars == <<unit_start, unit_log>>
store_vars == <<c_symbol, c_prerequisite, st_last, unit_vars>>
vars == <<walk_vars, inj_vars, store_vars>>

(***************************************************************************)
(* Bounds of the model.                                                    *)
(***************************************************************************)
MaxRules == 2
MaxId == 14
MaxLog == 8
MaxPending == 2
MaxName == 4

Min(a, b) == IF a < b THEN a ELSE b

(***************************************************************************)
(* Paths.  A path is [dir, name]: the directory it lies in and its name as *)
(* the sequence of the pieces the code tells apart: the stem, then the     *)
(* suffix ".c" and the tags "-fab-marked" and "-fab-pp" appended to it.    *)
(***************************************************************************)
DirParent(d) ==
    CASE d = "proj" -> ""
      [] d = "src" -> "proj"
      [] d = "build" -> "proj"
      [] d = "out" -> ""

TreeDirs == {"proj", "src", "build"}

DirPath(d) == [dir |-> DirParent(d), name |-> <<d>>]

IsDir(p) == Len(p.name) = 1 /\ p.name[1] \in TreeDirs

InitialFiles ==
    { [dir |-> "proj", name |-> <<"other", ".c">>],
      [dir |-> "src", name |-> <<"other", ".c">>],
      [dir |-> "src", name |-> <<"special", ".c">>] }

\* A tree with a single source file, and the trees a walk may start from.
SingleFile == { [dir |-> "src", name |-> <<"special", ".c">>] }

InitialTrees == {InitialFiles, SingleFile}

Workspaces == {"build", "out"}

\* str(candidate): the directory's components, then the name's pieces.
RECURSIVE DirStr(_)
DirStr(d) == IF d = "" THEN <<>> ELSE DirStr(DirParent(d)) \o <<d>>

PathStr(p) == DirStr(p.dir) \o p.name

\* The order of Python's string comparison on the pieces used here.
PieceRank(t) ==
    CASE t = "build" -> 1
      [] t = "other" -> 2
      [] t = "special" -> 3
      [] t = "src" -> 4
      [] t = ".c" -> 1
      [] t = "-fab-marked" -> 1
      [] t = "-fab-pp" -> 2

\* Path.__lt__ on two siblings: their names compared as strings.
NameLess(a, b) ==
    \E k \in 1..(Min(Len(a), Len(b)) + 1) :
        /\ \A j \in 1..(k - 1) : a[j] = b[j]
        /\ \/ k > Len(a) /\ k <= Len(b)
           \/ k <= Len(a) /\ k <= Len(b) /\ PieceRank(a[k]) < PieceRank(b[k])

\* sorted(...): ascending, smallest first.
RECURSIVE Sorted(_)
Sorted(S) ==
    IF S = {} THEN <<>>
    ELSE LET m == CHOOSE x \in S : \A y \in S \ {x} : NameLess(x.name, y.name)
         IN <<m>> \o Sorted(S \ {m})

\* candidate.iterdir(): the sub-directories and the files now in directory d.
IterDir(d, fs) ==
    { DirPath(s) : s \in { t \in TreeDirs : DirParent(t) = d } }
        \cup { f \in fs : f.dir = d }

(***************************************************************************)
(* Dispatch rules.  A pattern is the regular expression ".*" lit, anchored *)
(* at its end by "$" or not; re.match anchors it at the start.             *)
(***************************************************************************)
EndsWith(s, lit) ==
    /\ Len(lit) <= Len(s)
    /\ \A j \in 1..Len(lit) : s[Len(s) - Len(lit) + j] = lit[j]

Contains(s, lit) ==
    \E k \in 0..(Len(s) - Len(lit)) : \A j \in 1..Len(lit) : s[k + j] = lit[j]

\* match(pattern, str(candidate))
Match(pattern, str) ==
    IF pattern.anchored THEN EndsWith(str, pattern.lit)
    ELSE Contains(str, pattern.lit)

Patterns ==
    { [lit |-> <<".c">>, anchored |-> TRUE],                    \* .*\.c$
      [lit |-> <<"special", ".c">>, anchored |-> TRUE],         \* .*special\.c$
      [lit |-> <<".c">>, anchored |-> FALSE] }                  \* .*\.c

\* CommandTask is a Task that is no Analyser, SingleFileCommand or TextModifier.
Classes == {"CIncludeMarker", "CPreProcessor", "CAnalyser", "CommandTask"}

Rules == [pattern : Patterns, classname : Classes]

\* The rules of the C pipeline: mark, preprocess, analyse.
Pipeline ==
    << [pattern |-> [lit |-> <<".c">>, anchored |-> TRUE],
        classname |-> "CIncludeMarker"],
       [pattern |-> [lit |-> <<".c", "-fab-marked">>, anchored |-> TRUE],
        classname |-> "CPreProcessor"],
       [pattern |-> [lit |-> <<".c", "-fab-pp">>, anchored |-> TRUE],
        classname |-> "CAnalyser"] >>

SourceMaps ==
    UNION { [1..n -> Rules] : n \in 0..MaxRules } \cup {Pipeline}

issubclass(cls, base) ==
    \/ cls = "CAnalyser" /\ base = "Analyser"
    \/ cls = "CPreProcessor" /\ base = "SingleFileCommand"
    \/ cls = "CIncludeMarker" /\ base = "TextModifier"


(***************************************************************************)
(* SourceVisitor.visit                                                     *)
(***************************************************************************)
\* The loop over the rule list, from rule i on, task_class being the class
\* found so far ("None" for None).
RECURSIVE ScanMap(_, _, _, _)
ScanMap(map, str, i, task_class) ==
    IF i > Len(map) THEN task_class
    ELSE ScanMap(map, str, i + 1,
                 IF Match(map[i].pattern, str) THEN map[i].classname
                 ELSE task_class)

\* Mutant of SelectTaskClass: the scan stops at the first matching rule.
SelectTaskClass_FirstMatch(map, candidate) ==
    LET hits == { i \in 1..Len(map) : Match(map[i].pattern, PathStr(candidate)) }
    IN IF hits = {} THEN "None"
       ELSE map[CHOOSE i \in hits : \A j \in hits : i <= j].classname

SelectTaskClass(map, candidate) == ScanMap(map, PathStr(candidate), 1, "None")

\* Mutant of Construct: the last branch builds a text modifier instead of
\* raising TypeError.
Construct_NoTypeError(task_class) ==
    IF issubclass(task_class, "Analyser") THEN "Analyser"
    ELSE IF issubclass(task_class, "SingleFileCommand") THEN "SingleFileCommand"
    ELSE "TextModifier"

\* The if/elif chain that constructs the task: the kind of task built, or
\* "TypeError" when the class is none of the three kinds.
Construct(task_class) ==
    IF issubclass(task_class, "Analyser") THEN "Analyser"
    ELSE IF issubclass(task_class, "SingleFileCommand") THEN "SingleFileCommand"
    ELSE IF issubclass(task_class, "TextModifier") THEN "TextModifier"
    ELSE "TypeError"

\* Path.with_suffix(suffix).name: the stem keeps, the suffix is replaced.
WithSuffix(name, suffix) == <<name[1]>> \o suffix

\* Path.suffix
Suffix(name) == Tail(name)

\* CIncludeMarker.extension: the current suffix with "-fab-marked" appended.
CIncludeMarkerExtension(filename) == Suffix(filename.name) \o <<"-fab-marked">>

\* TextModifier.products, for the file-backed reader visit builds.
TextModifierProducts(ws, filename) ==
    << [dir |-> ws,
        name |-> WithSuffix(filename.name, CIncludeMarkerExtension(filename))] >>

\* CPreProcessor.output
CPreProcessorOutput(ws, filename) ==
    << [dir |-> ws, name |-> WithSuffix(filename.name, <<".c", "-fab-pp">>)] >>

\* CommandTask.products: the declared outputs of the wrapped command.
CommandTaskProducts(ws, filename) == CPreProcessorOutput(ws, filename)

\* Analyser.products
AnalyserProducts == <<>>

\* task.products of the task visit built for the candidate.
Products(kind, ws, candidate) ==
    CASE kind = "Analyser" -> AnalyserProducts
      [] kind = "SingleFileCommand" -> CommandTaskProducts(ws, candidate)
      [] kind = "TextModifier" -> TextModifierProducts(ws, candidate)

\* The files on disk after the task ran with the given outcome.
\* TextModifier.run opens products[0] for writing before it reads a line, so
\* the file exists even when a line raises; a command that fails leaves none.
FilesAfter(kind, outcome, prods, fs) ==
    IF kind = "TextModifier" \/ (kind = "SingleFileCommand" /\ outcome = "ok")
    THEN fs \cup { prods[j] : j \in 1..Len(prods) }
    ELSE fs

(***************************************************************************)
(* TreeDescent.descend                                                     *)
(***************************************************************************)
\* to_visit.pop(): the candidate popped and the list left.
Popped(stack) == stack[Len(stack)]
AfterPop(stack) == SubSeq(stack, 1, Len(stack) - 1)

\* Mutant of Extend: the items are inserted at the front of the list.
Extend_AtFront(stack, items) == items \o stack

\* to_visit.extend(items)
Extend(stack, items) == stack \o items

\* Mutant of SortedChildren: sorted(..., reverse=True).
SortedChildren_Reversed(d, fs) ==
    LET asc == Sorted(IterDir(d, fs))
    IN [ j \in 1..Len(asc) |-> asc[Len(asc) + 1 - j] ]

\* sorted(candidate.iterdir())
SortedChildren(d, fs) == Sorted(IterDir(d, fs))

\* History fields of a frontier entry: a number (unique below MaxId), where
\* the entry came from, and, for a product, the numbers of the entries that
\* were on the frontier when the file producing it was popped.
Entries(paths, origin, pre) ==
    [ j \in 1..Len(paths) |->
        [path |-> paths[j], id |-> Min(nid + j, MaxId),
         origin |-> origin, pre |-> pre] ]

Ids(stack) == { stack[j].id : j \in 1..Len(stack) }

Logged(e, cls, result) ==
    IF Len(log) < MaxLog
    THEN Append(log, [id |-> e.id, path |-> e.path, origin |-> e.origin,
                      pre |-> e.pre, cls |-> cls, result |-> result])
    ELSE log

WalkInit ==
    /\ source_map \in SourceMaps
    /\ workspace \in Workspaces
    /\ files \in InitialTrees
    /\ to_visit = << [path |-> DirPath("proj"), id |-> 1,
                      origin |-> "root", pre |-> {}] >>
    /\ pc = "walking"
    /\ log = <<>>
    /\ nid = 1
    /\ failures = 0
    /\ iter = 0
    /\ pool = {}

\* candidate.is_dir(): the directory's sorted children are pushed.
Expand ==
    /\ pc = "walking" /\ to_visit # <<>>
    /\ iter' = 1 - iter
    /\ LET e == Popped(to_visit)
           kids == SortedChildren(e.path.name[1], files)
       IN /\ IsDir(e.path)
          /\ to_visit' = Extend(AfterPop(to_visit), Entries(kids, "child", {}))
          /\ nid' = Min(nid + Len(kids), MaxId)
    /\ UNCHANGED <<source_map, workspace, files, pc, log, failures, pool,
                   inj_vars, store_vars>>

\* visit: no rule matches, the candidate is ignored.
VisitIgnored ==
    /\ pc = "walking" /\ to_visit # <<>>
    /\ iter' = 1 - iter
    /\ LET e == Popped(to_visit)
       IN /\ ~IsDir(e.path)
          /\ SelectTaskClass(source_map, e.path) = "None"
          /\ to_visit' = Extend(AfterPop(to_visit), <<>>)
          /\ log' = Logged(e, "None", "ignored")
    /\ UNCHANGED <<source_map, workspace, files, pc, nid, failures, pool,
                   inj_vars, store_vars>>

\* visit: the class of the winning rule is of no known kind, TypeError is
\* raised and leaves descend.
VisitUnhandled ==
    /\ pc = "walking" /\ to_visit # <<>>
    /\ iter' = 1 - iter
    /\ LET e == Popped(to_visit)
           cls == SelectTaskClass(source_map, e.path)
       IN /\ ~IsDir(e.path)
          /\ cls # "None"
          /\ Construct(cls) = "TypeError"
          /\ to_visit' = AfterPop(to_visit)
          /\ log' = Logged(e, cls, "TypeError")
          /\ pc' = "aborted"
    /\ UNCHANGED <<source_map, workspace, files, nid, failures, pool,
                   inj_vars, store_vars>>

\* visit: the task is built and handed to the task handler.  The handler is
\* the caller's; to visit it either returns ("ok") or lets the exception of a
\* failed task through ("raised").
VisitTask(outcome) ==
    /\ pc = "walking" /\ to_visit # <<>>
    /\ iter' = 1 - iter
    /\ LET e == Popped(to_visit)
           cls == SelectTaskClass(source_map, e.path)
           kind == Construct(cls)
       IN /\ ~IsDir(e.path)
          /\ cls # "None"
          /\ kind # "TypeError"
          /\ LET prods == Products(kind, workspace, e.path)
             IN /\ \A j \in 1..Len(prods) : Len(prods[j].name) <= MaxName
                /\ files' = FilesAfter(kind, outcome, prods, files)
                /\ log' = Logged(e, cls, outcome)
                /\ IF outcome = "raised"
                   THEN /\ pc' = "aborted"
                        /\ to_visit' = AfterPop(to_visit)
                        /\ nid' = nid
                   ELSE /\ pc' = pc
                        /\ to_visit' =
                             Extend(AfterPop(to_visit),
                                    Entries(prods, "product",
                                            Ids(AfterPop(to_visit))))
                        /\ nid' = Min(nid + Len(prods), MaxId)
    /\ failures' = IF outcome = "ok" THEN failures ELSE failures + 1
    /\ UNCHANGED <<source_map, workspace, pool, inj_vars, store_vars>>

VisitOk == VisitTask("ok")
VisitRaised == VisitTask("raised")

\* The while loop ends: descend returns.
Return ==
    /\ pc = "walking" /\ to_visit = <<>>
    /\ pc' = "done"
    /\ UNCHANGED <<source_map, workspace, files, to_visit, log, nid, failures, iter,
                   pool, inj_vars, store_vars>>

\* CAnalyser.run has not scanned anything: the lists sys_includes and
\* usr_includes as run creates them.
NoRecovery ==
    [done |-> FALSE, raised |-> "",
     sys_includes |-> [start |-> <<>>, end |-> <<>>],
     usr_includes |-> [start |-> <<>>, end |-> <<>>]]

InjIdle ==
    /\ inj_src = <<>> /\ inj_i = 0 /\ inj_out = <<>> /\ inj_pc = "done"
    /\ recovered = NoRecovery

\* No store operation yet.
NoOp ==
    [op |-> "none", file |-> "", removed |-> FALSE, repeated |-> FALSE,
     prior |-> FALSE, lost |-> {}, raised |-> ""]

\* Both tables without a row.
NoTables == [sym |-> EmptyBag, pre |-> EmptyBag]

StoreIdle ==
    /\ c_symbol = EmptyBag /\ c_prerequisite = EmptyBag
    /\ st_last = NoOp
    /\ unit_start = NoTables /\ unit_log = <<>>

Init == WalkInit /\ InjIdle /\ StoreIdle

Next ==
    \/ Expand
    \/ VisitIgnored
    \/ VisitUnhandled
    \/ VisitOk
    \/ VisitRaised
    \/ Return

Spec == Init /\ [][Next]_vars

\* descend's loop runs on while it can: the interpreter does not stop.
FairSpec == Spec /\ WF_vars(Next)

(***************************************************************************)
(* The walk with a task handler that defers: it puts the task in a pool of *)
(* workers and returns at once, and a worker runs the task later.  visit   *)
(* and descend are as above: visit reads task.products when the handler    *)
(* has returned and descend pushes them.                                   *)
(***************************************************************************)

\* visit with the deferring handler.
VisitDeferred ==
    /\ pc = "walking" /\ to_visit # <<>>
    /\ Cardinality(pool) < MaxPending
    /\ iter' = 1 - iter
    /\ LET e == Popped(to_visit)
           cls == SelectTaskClass(source_map, e.path)
           kind == Construct(cls)
       IN /\ ~IsDir(e.path)
          /\ cls # "None"
          /\ kind # "TypeError"
          /\ LET prods == Products(kind, workspace, e.path)
             IN /\ \A j \in 1..Len(prods) : Len(prods[j].name) <= MaxName
                /\ pool' = pool \cup { [path |-> e.path, kind |-> kind,
                                        products |-> prods] }
                /\ log' = Logged(e, cls, "deferred")
                /\ to_visit' =
                     Extend(AfterPop(to_visit),
                            Entries(prods, "product", Ids(AfterPop(to_visit))))
                /\ nid' = Min(nid + Len(prods), MaxId)
    /\ UNCHANGED <<source_map, workspace, files, pc, failures,
                   inj_vars, store_vars>>

\* A worker runs a task of the pool to its end.  The task reads its input:
\* it fails when the file is not there.
WorkerRun ==
    /\ \E t \in pool :
          /\ pool' = pool \ {t}
          /\ files' = FilesAfter(t.kind,
                                 IF t.path \in files THEN "ok" ELSE "raised",
                                 t.products, files)
    /\ UNCHANGED <<source_map, workspace, to_visit, pc, log, nid, failures, iter,
                   inj_vars, store_vars>>

\* The rule lists of the walks with the deferring handler.
PoolMaps == { m \in SourceMaps : Len(m) <= 1 } \cup {Pipeline}

PoolInit == Init /\ source_map \in PoolMaps

PoolNext ==
    \/ Expand
    \/ VisitIgnored
    \/ VisitUnhandled
    \/ VisitDeferred
    \/ WorkerRun
    \/ Return

PoolSpec == PoolInit /\ [][PoolNext]_vars

(***************************************************************************)
(* CPragmaInjector.  A line is the sequence of the pieces the pattern      *)
(* _include_re tells apart: the literal "#include", white space, the       *)
(* characters that may open the target, other text, and the newline.       *)
(***************************************************************************)
MaxLines == 3

WhiteSpace == {" ", "\n"}

SysInclude == <<"#include", " ", "<", "x", ">", "\n">>
UsrIncludeIndented == <<" ", "#include", " ", "\"", "x", "\"", "\n">>
UsrIncludeQuote == <<"#include", " ", "'", "x", "'", "\n">>
BareInclude == <<"#include", " ", "x", "\n">>
PlainLine == <<"x", " ", "x", "\n">>
SpacedHashInclude == <<"#", " ", "include", " ", "<", "x", ">", "\n">>
NoSpaceInclude == <<"#include", "<", "x", ">", "\n">>
MarkerLikeLine == <<"#pragma", " ", "FAB", " ", "UsrIncludeEnd", "\n">>

SourceLines ==
    { SysInclude, UsrIncludeIndented, UsrIncludeQuote, BareInclude, PlainLine,
      SpacedHashInclude, NoSpaceInclude, MarkerLikeLine }

\* '#pragma FAB <name>\n'
PragmaLine(marker) == <<"#pragma", " ", "FAB", " ", marker, "\n">>

\* The number of white space pieces of line from position k on.
RECURSIVE SpaceRun(_, _)
SpaceRun(line, k) ==
    IF k <= Len(line) /\ line[k] \in WhiteSpace
    THEN 1 + SpaceRun(line, k + 1) ELSE 0

\* _include_pattern.match(line) for r'^\s*#include\s+(\S+)': the position of
\* the first piece of group 1, or 0 when the line does not match.
IncludeMatch(line) ==
    LET lead == SpaceRun(line, 1)
        gap == SpaceRun(line, lead + 2)
        at == lead + 2 + gap
    IN IF /\ lead + 1 <= Len(line)
          /\ line[lead + 1] = "#include"
          /\ gap >= 1
          /\ at <= Len(line)
       THEN at ELSE 0

\* include.startswith(prefix), include being group 1 of the match.
StartsWith(line, prefixes) == line[IncludeMatch(line)] \in prefixes

\* Mutant of InjectLine: the end marker of a library include is left out.
InjectLine_NoSysEnd(line) ==
    IF IncludeMatch(line) # 0
    THEN IF StartsWith(line, {"<"})
         THEN [raised |-> FALSE,
               yielded |-> << [text |-> PragmaLine("SysIncludeStart"),
                               injected |-> TRUE],
                              [text |-> line, injected |-> FALSE] >>]
         ELSE IF StartsWith(line, {"\"", "'"})
         THEN [raised |-> FALSE,
               yielded |-> << [text |-> PragmaLine("UsrIncludeStart"),
                               injected |-> TRUE],
                              [text |-> line, injected |-> FALSE],
                              [text |-> PragmaLine("UsrIncludeEnd"),
                               injected |-> TRUE] >>]
         ELSE [raised |-> TRUE, yielded |-> <<>>]
    ELSE [raised |-> FALSE,
          yielded |-> << [text |-> line, injected |-> FALSE] >>]

\* Mutant of InjectLine: a project include is closed by the library end
\* marker.
InjectLine_MixedPair(line) ==
    IF IncludeMatch(line) # 0
    THEN IF StartsWith(line, {"<"})
         THEN [raised |-> FALSE,
               yielded |-> << [text |-> PragmaLine("SysIncludeStart"),
                               injected |-> TRUE],
                              [text |-> line, injected |-> FALSE],
                              [text |-> PragmaLine("SysIncludeEnd"),
                               injected |-> TRUE] >>]
         ELSE IF StartsWith(line, {"\"", "'"})
         THEN [raised |-> FALSE,
               yielded |-> << [text |-> PragmaLine("UsrIncludeStart"),
                               injected |-> TRUE],
                              [text |-> line, injected |-> FALSE],
                              [text |-> PragmaLine("SysIncludeEnd"),
                               injected |-> TRUE] >>]
         ELSE [raised |-> TRUE, yielded |-> <<>>]
    ELSE [raised |-> FALSE,
          yielded |-> << [text |-> line, injected |-> FALSE] >>]

\* Mutant of InjectLine: a directive that is neither bracketed nor quoted is
\* passed through instead of raising.
InjectLine_PassBare(line) ==
    IF IncludeMatch(line) # 0
    THEN IF StartsWith(line, {"<"})
         THEN [raised |-> FALSE,
               yielded |-> << [text |-> PragmaLine("SysIncludeStart"),
                               injected |-> TRUE],
                              [text |-> line, injected |-> FALSE],
                              [text |-> PragmaLine("SysIncludeEnd"),
                               injected |-> TRUE] >>]
         ELSE IF StartsWith(line, {"\"", "'"})
         THEN [raised |-> FALSE,
               yielded |-> << [text |-> PragmaLine("UsrIncludeStart"),
                               injected |-> TRUE],
                              [text |-> line, injected |-> FALSE],
                              [text |-> PragmaLine("UsrIncludeEnd"),
                               injected |-> TRUE] >>]
         ELSE [raised |-> FALSE,
               yielded |-> << [text |-> line, injected |-> FALSE] >>]
    ELSE [raised |-> FALSE,
          yielded |-> << [text |-> line, injected |-> FALSE] >>]

\* The body of line_by_line's loop for one line of the source: the lines it
\* yields, each marked as injected by the code or taken from the source, or
\* the TaskException it raises.
InjectLine(line) ==
    IF IncludeMatch(line) # 0
    THEN IF StartsWith(line, {"<"})
         THEN [raised |-> FALSE,
               yielded |-> << [text |-> PragmaLine("SysIncludeStart"),
                               injected |-> TRUE],
                              [text |-> line, injected |-> FALSE],
                              [text |-> PragmaLine("SysIncludeEnd"),
                               injected |-> TRUE] >>]
         ELSE IF StartsWith(line, {"\"", "'"})
         THEN [raised |-> FALSE,
               yielded |-> << [text |-> PragmaLine("UsrIncludeStart"),
                               injected |-> TRUE],
                              [text |-> line, injected |-> FALSE],
                              [text |-> PragmaLine("UsrIncludeEnd"),
                               injected |-> TRUE] >>]
         ELSE [raised |-> TRUE, yielded |-> <<>>]
    ELSE [raised |-> FALSE,
          yielded |-> << [text |-> line, injected |-> FALSE] >>]

WalkIdle ==
    /\ source_map = <<>> /\ workspace = "out" /\ files = {}
    /\ to_visit = <<>> /\ pc = "done" /\ log = <<>>
    /\ nid = 0 /\ failures = 0 /\ iter = 0 /\ pool = {}

InjInit ==
    /\ inj_src \in UNION { [1..n -> SourceLines] : n \in 0..MaxLines }
    /\ inj_i = 0
    /\ inj_out = <<>>
    /\ inj_pc = "run"
    /\ recovered = NoRecovery

\* One pass of the loop that yields.
InjYield ==
    /\ inj_pc = "run" /\ inj_i < Len(inj_src)
    /\ ~InjectLine(inj_src[inj_i + 1]).raised
    /\ inj_out' = inj_out \o InjectLine(inj_src[inj_i + 1]).yielded
    /\ inj_i' = inj_i + 1
    /\ UNCHANGED <<inj_src, inj_pc, recovered, walk_vars, store_vars>>

\* One pass of the loop that raises TaskException: the generator is finished.
InjRaise ==
    /\ inj_pc = "run" /\ inj_i < Len(inj_src)
    /\ InjectLine(inj_src[inj_i + 1]).raised
    /\ inj_pc' = "raised"
    /\ UNCHANGED <<inj_src, inj_i, inj_out, recovered, walk_vars, store_vars>>

\* The source is exhausted: the generator returns.
InjReturn ==
    /\ inj_pc = "run" /\ inj_i = Len(inj_src)
    /\ inj_pc' = "done"
    /\ UNCHANGED <<inj_src, inj_i, inj_out, recovered, walk_vars, store_vars>>


(***************************************************************************)
(* CWorkingState.  The tables c_symbol (symbol, found_in) and              *)
(* c_prerequisite (symbol, found_in, prerequisite) are bags of rows: the   *)
(* inserts do not deduplicate and no statement reads the id column.  The   *)
(* foreign key clauses are not enforced (SQLite's default).                *)
(***************************************************************************)
MaxRows == 2
MaxCalls == 2

SymbolNames == {"bar", "foo"}
FileNames == {"a.c", "b.c"}

\* insert into c_symbol (symbol, found_in) values (:symbol, :filename)
InsertSymbol(table, symbol, filename) ==
    table (+) SetToBag({ [symbol |-> symbol, found_in |-> filename] })

\* insert into c_prerequisite(symbol, found_in, prerequisite) values (...)
InsertPrerequisite(table, symbol, found_in, depends_on) ==
    table (+) SetToBag({ [symbol |-> symbol, found_in |-> found_in,
                          prerequisite |-> depends_on] })

\* Mutant of DeleteFoundIn: the where clause is dropped.
DeleteFoundIn_EveryRow(table, filename) == EmptyBag

\* Mutant of DeleteFoundIn: the rows are selected by their symbol column.
DeleteFoundIn_BySymbol(table, filename) ==
    [ r \in { x \in DOMAIN table : x.symbol # filename } |-> table[r] ]

\* delete from <table> where found_in = :filename
DeleteFoundIn(table, filename) ==
    [ r \in { x \in DOMAIN table : x.found_in # filename } |-> table[r] ]

\* A column without a value: the left joins' NULL, Python's None.
NULL == "<NULL>"

\* The column values in the order "order by" puts them: NULL first, then
\* the strings in their binary collation.
ColumnOrder == <<NULL, "a.c", "b.c", "bar", "foo">>

ColumnRank(v) == CHOOSE i \in 1..Len(ColumnOrder) : ColumnOrder[i] = v

\* order by s.symbol, s.found_in, p.prerequisite
RowLess(r1, r2) ==
    \/ ColumnRank(r1.symbol) < ColumnRank(r2.symbol)
    \/ /\ r1.symbol = r2.symbol
       /\ \/ ColumnRank(r1.found_in) < ColumnRank(r2.found_in)
          \/ /\ r1.found_in = r2.found_in
             /\ ColumnRank(r1.prerequisite) < ColumnRank(r2.prerequisite)

\* c_symbol as s left join c_prerequisite as p
\*     on p.symbol = s.symbol and p.found_in = s.found_in
\* The bag of the joined rows (symbol, found_in, prerequisite): one for each
\* pair of a c_symbol row and a c_prerequisite row of the same symbol and
\* file, and one with a NULL prerequisite for a c_symbol row without any.
LeftJoin(sym, pre) ==
    LET On(s) == { p \in DOMAIN pre :
                      p.symbol = s.symbol /\ p.found_in = s.found_in }
        Pairs == { sp \in (DOMAIN sym) \X (DOMAIN pre) : sp[2] \in On(sp[1]) }
        Alone == { s \in DOMAIN sym : On(s) = {} }
        Joined(s, prerequisite) ==
            [symbol |-> s.symbol, found_in |-> s.found_in,
             prerequisite |-> prerequisite]
        Rows == { Joined(sp[1], sp[2].prerequisite) : sp \in Pairs }
                   \cup { Joined(s, NULL) : s \in Alone }
        Copies(r) ==
            LET s == [symbol |-> r.symbol, found_in |-> r.found_in]
            IN  IF r.prerequisite = NULL THEN sym[s]
                ELSE sym[s] * pre[[symbol |-> r.symbol,
                                   found_in |-> r.found_in,
                                   prerequisite |-> r.prerequisite]]
    IN  [ r \in Rows |-> Copies(r) ]

\* where s.symbol = :symbol
WhereSymbol(rows, symbol) ==
    [ r \in { x \in DOMAIN rows : x.symbol = symbol } |-> rows[r] ]

Repeat(x, n) == [ i \in 1..n |-> x ]

\* The rows of a bag as the sequence "order by" returns.  Rows that compare
\* equal on the three columns are equal rows, so the sequence is determined.
RECURSIVE OrderBy(_)
OrderBy(rows) ==
    IF DOMAIN rows = {} THEN <<>>
    ELSE LET first == CHOOSE r \in DOMAIN rows :
                          \A x \in DOMAIN rows : x = r \/ RowLess(r, x)
         IN  Repeat(first, rows[first])
                \o OrderBy([ x \in DOMAIN rows \ {first} |-> rows[x] ])

\* CSymbolID(name, found_in) and CInfo(symbol, depends_on)
CSymbolID(name, found_in) == [name |-> name, found_in |-> found_in]

CInfo(symbol) == [symbol |-> symbol, depends_on |-> <<>>]

\* CInfo.add_prerequisite
AddPrerequisite(info, prereq) ==
    [info EXCEPT !.depends_on = Append(@, prereq)]

\* "info is None": no record has been started.
NoInfo == [symbol |-> CSymbolID(NULL, NULL), depends_on |-> <<>>]

Yield(out, info) == IF info = NoInfo THEN out ELSE Append(out, info)

\* The loop of get_symbol over the ordered rows.  A row of the record under
\* construction adds its prerequisite column as it is; the first row of a
\* record adds it when it is not None.
RECURSIVE GetSymbolLoop(_, _, _, _)
GetSymbolLoop(rows, info_list, previous_id, info) ==
    IF rows = <<>> THEN Yield(info_list, info)
    ELSE LET row == Head(rows)
             symbol_id == CSymbolID(row.symbol, row.found_in)
         IN  IF previous_id # NoInfo.symbol /\ symbol_id = previous_id
             THEN GetSymbolLoop(Tail(rows), info_list, previous_id,
                      IF info # NoInfo
                      THEN AddPrerequisite(info, row.prerequisite)
                      ELSE info)
             ELSE GetSymbolLoop(Tail(rows), Yield(info_list, info),
                      symbol_id,
                      IF row.prerequisite # NULL
                      THEN AddPrerequisite(CInfo(symbol_id),
                                           row.prerequisite)
                      ELSE CInfo(symbol_id))

\* Mutant of GetSymbol: an empty list is returned as it is.
GetSymbol_EmptyList(sym, pre, name) ==
    [raised |-> "",
     info_list |-> GetSymbolLoop(OrderBy(WhereSymbol(LeftJoin(sym, pre),
                                                     name)),
                                 <<>>, NoInfo.symbol, NoInfo)]

\* get_symbol(name) on the tables sym and pre: the list of records, or the
\* WorkingStateException raised for an empty list.
GetSymbol(sym, pre, name) ==
    LET rows == OrderBy(WhereSymbol(LeftJoin(sym, pre), name))
        info_list == GetSymbolLoop(rows, <<>>, NoInfo.symbol, NoInfo)
    IN  IF Len(info_list) = 0
        THEN [raised |-> "WorkingStateException", info_list |-> <<>>]
        ELSE [raised |-> "", info_list |-> info_list]

\* The loop of __iter__ over the ordered rows.  The key starts as
\* CSymbolID('', Path()); the first row of a record adds its prerequisite
\* column when it is truthy (neither None nor '').
RECURSIVE IterLoop(_, _, _, _)
IterLoop(rows, yielded, key, info) ==
    IF rows = <<>> THEN Yield(yielded, info)
    ELSE LET row == Head(rows)
             id == CSymbolID(row.symbol, row.found_in)
         IN  IF id = key
             THEN IterLoop(Tail(rows), yielded, key,
                      IF info # NoInfo
                      THEN AddPrerequisite(info, row.prerequisite)
                      ELSE info)
             ELSE IterLoop(Tail(rows), Yield(yielded, info), id,
                      IF row.prerequisite \notin {NULL, ""}
                      THEN AddPrerequisite(CInfo(id), row.prerequisite)
                      ELSE CInfo(id))

\* __iter__: the sequence of the records yielded.
Iterate(sym, pre) ==
    IterLoop(OrderBy(LeftJoin(sym, pre)), <<>>, CSymbolID("", "."), NoInfo)

\* CSymbolUnresolvedID(name); it has no found_in.
CSymbolUnresolvedID(name) == [name |-> name, found_in |-> NULL]

\* Mutant of DependsOn: the where clause selects by the symbol name only.
DependsOn_AnyFile(sym, pre, symbol) ==
    LET Where == { p \in DOMAIN pre : p.symbol = symbol.name }
        On(p) == { f \in DOMAIN sym : f.symbol = p.prerequisite }
    IN  SetToBag({ CSymbolUnresolvedID(p.prerequisite) :
                      p \in { x \in Where : On(x) = {} } }
                   \cup { CSymbolID(f.symbol, f.found_in) :
                            f \in UNION { On(p) : p \in Where } })

\* depends_on(symbol): the bag of the identifiers yielded.  The query is
\*   c_prerequisite as p left join c_symbol as f on f.symbol = p.prerequisite
\*   where p.symbol = :symbol and p.found_in = :filename
\* and yields one row for each pair of a prerequisite row of the symbol and
\* a definition row of the prerequisite, and one with a NULL found_in for a
\* prerequisite row whose name has no definition row.  "order by p.symbol,
\* f.found_in" fixes the order by the defining file only, the order of the
\* rows of one file is the database's.
DependsOn(sym, pre, symbol) ==
    LET Where == { p \in DOMAIN pre : p.symbol = symbol.name
                                         /\ p.found_in = symbol.found_in }
        On(p) == { f \in DOMAIN sym : f.symbol = p.prerequisite }
        Yielded == { CSymbolUnresolvedID(p.prerequisite) :
                    p \in { x \in Where : On(x) = {} } }
                 \cup { CSymbolID(f.symbol, f.found_in) :
                          f \in UNION { On(p) : p \in Where } }
        Copies(id) ==
            LET p == [symbol |-> symbol.name, found_in |-> symbol.found_in,
                      prerequisite |-> id.name]
            IN  IF id.found_in = NULL THEN pre[p]
                ELSE pre[p] * sym[[symbol |-> id.name,
                                   found_in |-> id.found_in]]
    IN  [ id \in Yielded |-> Copies(id) ]

StoreInit ==
    /\ c_symbol = EmptyBag
    /\ c_prerequisite = EmptyBag
    /\ st_last = NoOp
    /\ unit_start = NoTables /\ unit_log = <<>>

\* add_c_symbol(CSymbolID(name, found_in))
AddCSymbol ==
    /\ BagCardinality(c_symbol) < MaxRows
    /\ \E name \in SymbolNames, found_in \in FileNames :
          c_symbol' = InsertSymbol(c_symbol, name, found_in)
    /\ st_last' = [NoOp EXCEPT !.op = "add"]
    /\ UNCHANGED <<c_prerequisite, unit_vars, walk_vars, inj_vars>>

\* add_c_dependency(CSymbolID(name, found_in), depends_on)
AddCDependency ==
    /\ BagCardinality(c_prerequisite) < MaxRows
    /\ \E name \in SymbolNames, found_in \in FileNames,
          depends_on \in SymbolNames :
          c_prerequisite' =
              InsertPrerequisite(c_prerequisite, name, found_in, depends_on)
    /\ st_last' = [NoOp EXCEPT !.op = "add"]
    /\ UNCHANGED <<c_symbol, unit_vars, walk_vars, inj_vars>>

\* Mutant of RemoveCFileStatements: the definitions are deleted first.
RemoveCFileStatements_SymbolsFirst == <<"c_symbol", "c_prerequisite">>

\* The list of statements remove_c_file hands to execute, each named by the
\* table it deletes from.
RemoveCFileStatements == <<"c_prerequisite", "c_symbol">>

\* A table once the first k statements of the list have run.
Executed(name, table, k, filename) ==
    IF \E i \in 1..k : RemoveCFileStatements[i] = name
    THEN DeleteFoundIn(table, filename)
    ELSE table

\* The names defined in the file that rows of other files record as a
\* prerequisite.
LostBy(filename) ==
    { r.prerequisite :
        r \in { x \in DOMAIN c_prerequisite :
                  /\ x.found_in # filename
                  /\ [symbol |-> x.prerequisite, found_in |-> filename]
                        \in DOMAIN c_symbol } }

\* remove_c_file(filename): both delete statements, in the order written.
RemoveCFile ==
    /\ \E filename \in FileNames :
          /\ c_prerequisite' =
                Executed("c_prerequisite", c_prerequisite,
                         Len(RemoveCFileStatements), filename)
          /\ c_symbol' =
                Executed("c_symbol", c_symbol,
                         Len(RemoveCFileStatements), filename)
          /\ st_last' =
               [op |-> "remove", file |-> filename,
                removed |-> (c_prerequisite' # c_prerequisite
                                \/ c_symbol' # c_symbol),
                repeated |-> (st_last.op = "remove"
                                /\ st_last.file = filename),
                prior |-> (st_last.op = "remove"
                             /\ st_last.file = filename /\ st_last.removed),
                lost |-> LostBy(filename), raised |-> ""]
    /\ UNCHANGED <<unit_vars, walk_vars, inj_vars>>

\* remove_c_file(filename) that fails: execute raises, or the process stops,
\* when only the first k statements of the list have run (none when k = 0,
\* which is also what a rolled back transaction leaves).
RemoveCFileFails ==
    /\ \E filename \in FileNames, k \in 0..(Len(RemoveCFileStatements) - 1) :
          /\ c_prerequisite' =
                Executed("c_prerequisite", c_prerequisite, k, filename)
          /\ c_symbol' = Executed("c_symbol", c_symbol, k, filename)
          /\ st_last' =
               [NoOp EXCEPT !.op = "remove failed", !.file = filename,
                            !.removed = (c_prerequisite' # c_prerequisite
                                           \/ c_symbol' # c_symbol),
                            !.raised = "Exception"]
    /\ UNCHANGED <<unit_vars, walk_vars, inj_vars>>

(***************************************************************************)
(* CAnalyser.run on the marked text: the scan of the tokens for the        *)
(* markers.  (In the pipeline cpp -P runs between the two and copies       *)
(* #pragma lines to its output.)                                           *)
(***************************************************************************)

\* The names the module c.py binds at its top level: those of its import
\* statements and of its classes.  No statement binds clang.
ModuleNames ==
    {"re", "Path", "deque", "List", "Sequence", "Pattern", "Generator",
     "Optional", "Union", "Match", "Iterator", "DatabaseDecorator",
     "FileInfoDatabase", "StateDatabase", "WorkingStateException",
     "SqliteStateDatabase", "SingleFileCommand", "TextModifier",
     "TaskException", "Analyser", "TextReader", "TextReaderDecorator",
     "CSymbolUnresolvedID", "CSymbolID", "CInfo", "CWorkingState",
     "CPragmaInjector", "CIncludeMarker", "CPreProcessor", "CAnalyser"}

\* The evaluation of a global name in a method of the module.
Lookup(name) == IF name \in ModuleNames THEN "" ELSE "NameError"

\* The tokens the parser gives for one piece of a line: white space gives
\* none, "#include" and "#pragma" are a "#" and a word, any other piece is
\* one token.
PieceTokens(piece) ==
    IF piece \in WhiteSpace THEN <<>>
    ELSE IF piece = "#include" THEN <<"#", "include">>
    ELSE IF piece = "#pragma" THEN <<"#", "pragma">>
    ELSE <<piece>>

RECURSIVE LineTokens(_, _)
LineTokens(text, line) ==
    IF text = <<>> THEN <<>>
    ELSE [ i \in 1..Len(PieceTokens(Head(text))) |->
             [spelling |-> PieceTokens(Head(text))[i], line |-> line] ]
           \o LineTokens(Tail(text), line)

\* translation_unit.cursor.get_tokens(): the tokens of the lines, each with
\* its spelling and the number of its line.
RECURSIVE GetTokens(_, _)
GetTokens(lines, first) ==
    IF lines = <<>> THEN <<>>
    ELSE LineTokens(Head(lines).text, first)
           \o GetTokens(Tail(lines), first + 1)

\* " ".join(id.spelling for id in identifiers) == "# pragma FAB <name>"
IsPragma(identifiers, name) ==
    [ i \in 1..Len(identifiers) |-> identifiers[i].spelling ]
       = <<"#", "pragma", "FAB", name>>

\* The body of the loop once the window holds four tokens.
Spot(found, identifiers) ==
    IF identifiers[3].spelling = "FAB"
    THEN LET line == identifiers[3].line IN
         IF IsPragma(identifiers, "SysIncludeStart")
         THEN [found EXCEPT !.sys_includes.start = Append(@, line)]
         ELSE IF IsPragma(identifiers, "SysIncludeEnd")
         THEN [found EXCEPT !.sys_includes.end = Append(@, line)]
         ELSE IF IsPragma(identifiers, "UsrIncludeStart")
         THEN [found EXCEPT !.usr_includes.start = Append(@, line)]
         ELSE IF IsPragma(identifiers, "UsrIncludeEnd")
         THEN [found EXCEPT !.usr_includes.end = Append(@, line)]
         ELSE found
    ELSE found

\* for token in translation_unit.cursor.get_tokens(): the rolling window of
\* four tokens.
RECURSIVE ScanTokens(_, _, _)
ScanTokens(tokens, identifiers, found) ==
    IF tokens = <<>> THEN found
    ELSE LET appended == Append(identifiers, Head(tokens)) IN
         IF Len(appended) < 4
         THEN ScanTokens(Tail(tokens), appended, found)
         ELSE LET window == IF Len(appended) > 4 THEN Tail(appended)
                            ELSE appended
              IN  ScanTokens(Tail(tokens), window, Spot(found, window))

\* CAnalyser.run up to the end of the scan: clang.cindex.Index.create()
\* raises when the name clang is not bound, and then nothing is scanned.
RunScan(lines) ==
    IF Lookup("clang") = ""
    THEN [ScanTokens(GetTokens(lines, 1), <<>>, NoRecovery)
            EXCEPT !.done = TRUE]
    ELSE [NoRecovery EXCEPT !.done = TRUE, !.raised = Lookup("clang")]

\* CAnalyser.run on the text CPragmaInjector has yielded.
InjAnalyse ==
    /\ inj_pc = "done" /\ ~recovered.done
    /\ recovered' = RunScan(inj_out)
    /\ UNCHANGED <<inj_src, inj_i, inj_out, inj_pc, walk_vars, store_vars>>

InjNext == InjYield \/ InjRaise \/ InjReturn \/ InjAnalyse

InjSpecInit == WalkIdle /\ InjInit /\ StoreIdle

InjSpec == InjSpecInit /\ [][InjNext]_vars

(***************************************************************************)
(* CAnalyser.run on the store.  What the analysed file holds is what the   *)
(* parser reports of it: the functions it defines with external linkage    *)
(* and the functions it only declares, from a project header or from a     *)
(* library header.                                                         *)
(***************************************************************************)
SourceFiles ==
    [ f \in FileNames |->
        IF f = "a.c"
        THEN [defines |-> {"foo"}, project |-> {"bar"},
              library |-> {"printf"}]
        ELSE [defines |-> {"bar"}, project |-> {}, library |-> {"printf"}] ]

\* Mutant of AnalyserRemoves: run does not call remove_c_file.
AnalyserRemoves_Nothing(table, filename) == table

\* state.remove_c_file(self._reader.filename), on one table.
AnalyserRemoves(table, filename) == DeleteFoundIn(table, filename)

\* The walk of the nodes: the branch of a function definition with external
\* linkage and the branch of the other declarations are both "pass", so no
\* row is added to either table.
WalkPreorder(table, filename) == table

\* CAnalyser.run for a file: remove_c_file, then clang.cindex.Index.create()
\* (which raises when the name clang is not bound), then the scan of the
\* tokens, which does not touch the store, then the walk of the nodes.
CAnalyserRun ==
    /\ \E filename \in FileNames :
          LET raised == Lookup("clang")
              Left(table) ==
                  IF raised = ""
                  THEN WalkPreorder(AnalyserRemoves(table, filename),
                                    filename)
                  ELSE AnalyserRemoves(table, filename)
          IN  /\ c_symbol' = Left(c_symbol)
              /\ c_prerequisite' = Left(c_prerequisite)
              /\ st_last' =
                   [op |-> "analyse", file |-> filename,
                    removed |-> (c_prerequisite' # c_prerequisite
                                    \/ c_symbol' # c_symbol),
                    repeated |-> (st_last.op = "analyse"
                                    /\ st_last.file = filename),
                    prior |-> (st_last.op = "analyse"
                                 /\ st_last.file = filename
                                 /\ st_last.removed),
                    lost |-> LostBy(filename), raised |-> raised]
    /\ UNCHANGED <<unit_vars, walk_vars, inj_vars>>

StoreNext ==
    \/ AddCSymbol
    \/ AddCDependency
    \/ RemoveCFile
    \/ RemoveCFileFails
    \/ CAnalyserRun

StoreSpecInit == WalkIdle /\ InjIdle /\ StoreInit

StoreSpec == StoreSpecInit /\ [][StoreNext]_vars

(***************************************************************************)
(* Workers that each process one file.  A worker's unit is remove_c_file   *)
(* of its file followed by the add_c_symbol and add_c_dependency calls for *)
(* the symbols of that file; a lock on the file makes the unit atomic, and *)
(* the units of different files run in any order.                          *)
(***************************************************************************)

\* The add calls a unit can make: add_c_symbol(CSymbolID(name, file)) and
\* add_c_dependency(CSymbolID(name, file), depends_on), the prerequisite
\* being another name.
AddCalls ==
    [call : {"add_c_symbol"}, name : SymbolNames, depends_on : {""}]
       \cup { c \in [call : {"add_c_dependency"}, name : SymbolNames,
                      depends_on : SymbolNames] : c.depends_on # c.name }

CallLists == UNION { [1..n -> AddCalls] : n \in 0..MaxCalls }

\* The tables after one add call for a symbol of the file.
AddCall(tables, filename, c) ==
    IF c.call = "add_c_symbol"
    THEN [tables EXCEPT !.sym = InsertSymbol(@, c.name, filename)]
    ELSE [tables EXCEPT
            !.pre = InsertPrerequisite(@, c.name, filename, c.depends_on)]

RECURSIVE AddAll(_, _, _)
AddAll(tables, filename, calls) ==
    IF calls = <<>> THEN tables
    ELSE AddAll(AddCall(tables, filename, Head(calls)), filename, Tail(calls))

\* Mutant of Removed: the rows of every other file are deleted as well.
Removed_EveryFile(tables, filename) == NoTables

\* The tables after remove_c_file(filename).
Removed(tables, filename) ==
    [sym |-> Executed("c_symbol", tables.sym,
                      Len(RemoveCFileStatements), filename),
     pre |-> Executed("c_prerequisite", tables.pre,
                      Len(RemoveCFileStatements), filename)]

\* The tables after the unit of a file.
FileUnit(tables, filename, calls) ==
    AddAll(Removed(tables, filename), filename, calls)

\* The tables a run of the units one after another leaves.
RECURSIVE RunUnits(_, _)
RunUnits(tables, units) ==
    IF units = <<>> THEN tables
    ELSE RunUnits(FileUnit(tables, Head(units).file, Head(units).calls),
                  Tail(units))

\* What earlier runs have left in the store: nothing, or the records of
\* a.c (foo, which needs bar) and of b.c (bar).
PriorStores ==
    { NoTables,
      RunUnits(NoTables,
               << [file |-> "a.c",
                   calls |-> << [call |-> "add_c_symbol", name |-> "foo",
                                 depends_on |-> ""],
                                [call |-> "add_c_dependency", name |-> "foo",
                                 depends_on |-> "bar"] >>],
                  [file |-> "b.c",
                   calls |-> << [call |-> "add_c_symbol", name |-> "bar",
                                 depends_on |-> ""] >>] >>) }

UnitInit ==
    /\ WalkIdle /\ InjIdle
    /\ unit_start \in PriorStores
    /\ c_symbol = unit_start.sym
    /\ c_prerequisite = unit_start.pre
    /\ st_last = NoOp
    /\ unit_log = <<>>

\* A worker runs the unit of its file; no file has two workers.
WorkerUnit ==
    /\ \E filename \in FileNames, calls \in CallLists :
          /\ \A j \in 1..Len(unit_log) : unit_log[j].file # filename
          /\ LET after == FileUnit([sym |-> c_symbol, pre |-> c_prerequisite],
                                   filename, calls)
             IN  /\ c_symbol' = after.sym
                 /\ c_prerequisite' = after.pre
          /\ unit_log' = Append(unit_log, [file |-> filename, calls |-> calls])
          /\ st_last' = [NoOp EXCEPT !.op = "unit", !.file = filename]
    /\ UNCHANGED <<unit_start, walk_vars, inj_vars>>

UnitNext == WorkerUnit

UnitSpec == UnitInit /\ [][UnitNext]_vars

(***************************************************************************)
(* Claims about the walk.                                                  *)
(***************************************************************************)
LogIdx == 1..Len(log)

\* The indices of the rules whose pattern matches the path.
Matching(path) ==
    { i \in 1..Len(source_map) : Match(source_map[i].pattern, PathStr(path)) }

MaxOf(S) == CHOOSE m \in S : \A x \in S : x <= m

\* The class of the matching rule of highest index, "None" when none matches.
WinningClass(path) ==
    IF Matching(path) = {} THEN "None"
    ELSE source_map[MaxOf(Matching(path))].classname

KnownClasses == {"CAnalyser", "CPreProcessor", "CIncludeMarker"}

\* C1: the handler visit selects for a candidate is the class of the LAST
\* rule of the list whose pattern matches it (none when no rule matches):
\* every candidate offered to visit was dispatched to the class of the
\* matching rule of highest index.
C1_LastMatchWins ==
    \A k \in LogIdx : log[k].cls = WinningClass(log[k].path)

\* C1 witness: with rules [(.*\.c$, CIncludeMarker), (.*special\.c$,
\* CPreProcessor)], special.c went to CPreProcessor and other.c to
\* CIncludeMarker.
C1_Witness ==
    /\ source_map =
         << [pattern |-> [lit |-> <<".c">>, anchored |-> TRUE],
             classname |-> "CIncludeMarker"],
            [pattern |-> [lit |-> <<"special", ".c">>, anchored |-> TRUE],
             classname |-> "CPreProcessor"] >>
    /\ \E k \in LogIdx : /\ log[k].path.name = <<"special", ".c">>
                         /\ log[k].cls = "CPreProcessor"
    /\ \E k \in LogIdx : /\ log[k].path.name = <<"other", ".c">>
                         /\ log[k].cls = "CIncludeMarker"

\* The log records of the tasks that reached the task handler.
HandedOver(k) == log[k].result \in {"ok", "raised"}

\* C2: a candidate whose winning rule names a class that is no Analyser,
\* SingleFileCommand or TextModifier makes visit raise TypeError without the
\* task handler being called for it, descend ends with that error, it is the
\* last candidate visited, and nothing of the walk changes afterwards.
C2_UnhandledAborts ==
    /\ [](\A k \in LogIdx :
            (WinningClass(log[k].path) \notin KnownClasses \cup {"None"})
                => /\ log[k].result = "TypeError"
                   /\ ~HandedOver(k)
                   /\ k = Len(log)
                   /\ pc = "aborted")
    /\ [][pc = "aborted" => UNCHANGED walk_vars]_vars

\* C2 witness: the walk was aborted by TypeError with candidates left on the
\* frontier.
C2_Witness ==
    /\ pc = "aborted"
    /\ log # <<>> /\ log[Len(log)].result = "TypeError"
    /\ to_visit # <<>>

\* Two log records of files listed by the expansion of the same directory.
Siblings(i, j) ==
    /\ log[i].origin = "child" /\ log[j].origin = "child"
    /\ log[i].path.dir = log[j].path.dir

\* C3 as claimed: of two sibling files x < y, x is offered to the visitor
\* before y.
C3_AscendingOrder ==
    \A i, j \in LogIdx :
        (Siblings(i, j) /\ NameLess(log[i].path.name, log[j].path.name))
            => i < j

\* C3 amended: the children of a directory are pushed in ascending order and
\* popped from the end, so of two sibling files x < y listed by the expansion
\* of their directory, y is offered to the visitor before x: when x is
\* offered no greater sibling is still waiting on the frontier.
C3_DescendingOrder ==
    /\ \A i, j \in LogIdx :
         (Siblings(i, j) /\ NameLess(log[i].path.name, log[j].path.name))
             => j < i
    /\ \A i \in LogIdx : \A n \in 1..Len(to_visit) :
         (/\ log[i].origin = "child" /\ to_visit[n].origin = "child"
          /\ ~IsDir(to_visit[n].path)
          /\ to_visit[n].path.dir = log[i].path.dir)
             => NameLess(to_visit[n].path.name, log[i].path.name)

\* C3 witness: both files of src were offered, special.c first.
C3_Witness ==
    \E i, j \in LogIdx :
        /\ Siblings(i, j) /\ i < j
        /\ log[i].path = [dir |-> "src", name |-> <<"special", ".c">>]
        /\ log[j].path = [dir |-> "src", name |-> <<"other", ".c">>]

\* C4: a product returned by visit for a file is visited before every entry
\* that was on the frontier when that file was popped: no such entry is
\* offered while the product waits, and a product is logged before them.
C4_ProductsFirst ==
    /\ \A n \in 1..Len(to_visit) : \A k \in LogIdx :
         (/\ to_visit[n].origin = "product" /\ to_visit[n].id < MaxId
          /\ log[k].id < MaxId)
             => log[k].id \notin to_visit[n].pre
    /\ \A i, k \in LogIdx :
         (/\ log[i].origin = "product" /\ log[i].id < MaxId
          /\ log[k].id < MaxId /\ log[k].id \in log[i].pre)
             => i < k

\* C4 witness: a product was visited, and later an entry that was on the
\* frontier when the product's source file was popped.
C4_Witness ==
    \E i, k \in LogIdx :
        /\ log[i].origin = "product" /\ log[i].id < MaxId
        /\ log[k].id < MaxId /\ log[k].id \in log[i].pre
        /\ i < k

\* The walk stands at the model's bound on the length of names.
AtNameBound ==
    /\ pc = "walking" /\ to_visit # <<>>
    /\ LET e == Popped(to_visit)
           kind == Construct(SelectTaskClass(source_map, e.path))
       IN /\ ~IsDir(e.path)
          /\ kind \in {"SingleFileCommand", "TextModifier"}
          /\ \E j \in 1..Len(Products(kind, workspace, e.path)) :
                Len(Products(kind, workspace, e.path)[j].name) > MaxName

\* C5 as claimed: for every rule list over the provided handlers the
\* frontier eventually empties and descend returns.  A walk that an error
\* ends, or that reaches the model's bound on the length of names, is not
\* held against the claim.
C5_Terminates == <>(pc # "walking" \/ AtNameBound)

\* C9 as claimed: a task failure aborts that one task only: its products do
\* not enter the frontier and the descent goes on with what was queued.
C9_FailureIsLocal ==
    [][(failures' = failures + 1)
          => (pc' = "walking" /\ to_visit' = AfterPop(to_visit))]_vars

\* The tree the walk started from held the single source file f: products
\* are the only files a walk adds, and their names carry a tag.
OnlySource(f) == { x \in files : Len(x.name) = 2 } = {f}

PipelineStages == <<"CIncludeMarker", "CPreProcessor", "CAnalyser">>

\* C20: with the rules '.c' -> CIncludeMarker, '.c-fab-marked' ->
\* CPreProcessor and '.c-fab-pp' -> CAnalyser and a tree holding a single
\* source file, the walk hands exactly three tasks to the handler: the
\* marker for the source file, the preprocessor for the marker's product
\* and the analyser for the preprocessor's product, in that order; the
\* analyser has no products, so that a walk that returns has made exactly
\* these three visits.
C20_PipelineChain ==
    (source_map = Pipeline /\ \E f \in SingleFile : OnlySource(f)) =>
        /\ Len(log) <= Len(PipelineStages)
        /\ \A k \in LogIdx :
              /\ log[k].cls = PipelineStages[k]
              /\ k = 1 => log[k].path \in SingleFile
              /\ k > 1 =>
                   \E j \in 1..Len(Products(Construct(log[k - 1].cls),
                                            workspace, log[k - 1].path)) :
                      Products(Construct(log[k - 1].cls), workspace,
                               log[k - 1].path)[j] = log[k].path
              /\ k = Len(PipelineStages) =>
                   Products(Construct(log[k].cls), workspace, log[k].path)
                     = <<>>
        /\ pc = "done" => Len(log) = Len(PipelineStages)

\* C24: during one descend no file path is offered to the visitor more than
\* once, also when the workspace lies inside the walked tree and when two
\* files of different directories have the same name and so the same
\* product path.  Stated for the pipeline rules, under which no product
\* matches the rule of the task producing it.
C24_NoPathTwice ==
    source_map = Pipeline =>
        \A j, k \in LogIdx : j < k => log[j].path # log[k].path

(***************************************************************************)
(* Claims about the walk with a deferring task handler.                    *)
(***************************************************************************)

\* C23: with a task handler that hands tasks to a pool of workers and
\* returns without waiting, a path is never dispatched to its own handler
\* task while a task that produces it is still in the pool, not finished.
C23_ProductAfterProducer ==
    [][ \A t \in pool' \ pool :
          \A u \in pool : \A j \in 1..Len(u.products) :
              u.products[j] # t.path ]_vars

(***************************************************************************)
(* Claims about CPragmaInjector.                                           *)
(***************************************************************************)
\* An include directive: a line the pattern matches.
IsDirective(line) == IncludeMatch(line) # 0

\* The first character of the directive's target.
TargetStart(line) == line[IncludeMatch(line)]

\* A directive whose target is neither bracketed nor quoted.
IsBareDirective(line) ==
    IsDirective(line) /\ TargetStart(line) \notin {"<", "\"", "'"}

NumDirectives(lines) ==
    Cardinality({ k \in 1..Len(lines) : IsDirective(lines[k]) })

IsInjected(o) == o.injected

\* The output with the injected marker lines removed.
StripInjected(out) ==
    LET kept == SelectSeq(out, LAMBDA o : ~IsInjected(o))
    IN [ k \in 1..Len(kept) |-> kept[k].text ]

\* C6: when line_by_line runs to completion the output has the input's line
\* count plus two per include directive, and with the injected marker lines
\* removed it is the input, line for line and in order.
C6_LineCount ==
    inj_pc = "done" =>
        /\ Len(inj_out) = Len(inj_src) + 2 * NumDirectives(inj_src)
        /\ StripInjected(inj_out) = inj_src

\* C6 witness: a completed run over two directives and other lines, one of
\* them a line of the source that reads like a marker.
C6_Witness ==
    /\ inj_pc = "done"
    /\ NumDirectives(inj_src) = 2
    /\ Len(inj_src) = 3
    /\ \E k \in 1..Len(inj_src) : inj_src[k] = MarkerLikeLine
    /\ Len(inj_out) = 7

StartOf(class) == PragmaLine(class \o "IncludeStart")
EndOf(class) == PragmaLine(class \o "IncludeEnd")

\* The provenance class of a directive by its target: library (Sys) for an
\* angle bracket, project (Usr) for a single or double quote.
ClassOfTarget(line) ==
    IF TargetStart(line) = "<" THEN "Sys"
    ELSE IF TargetStart(line) \in {"\"", "'"} THEN "Usr"
    ELSE "none"

\* The number of lines of the source among the first i lines of the output.
SourceCount(out, i) ==
    Cardinality({ k \in 1..i : ~out[k].injected })

\* C7: every injected start marker is directly followed by one unmodified
\* directive line of the source and then by the injected end marker of the
\* same class, the class being Sys exactly for a target opening with '<' and
\* Usr exactly for one opening with a quote; every injected end marker closes
\* such a triple, and every directive of the output stands in one.
C7_MarkersPaired ==
    \A i \in 1..Len(inj_out) :
        /\ inj_out[i].injected =>
             \E class \in {"Sys", "Usr"} :
                \/ /\ inj_out[i].text = StartOf(class)
                   /\ i + 2 <= Len(inj_out)
                   /\ ~inj_out[i + 1].injected
                   /\ IsDirective(inj_out[i + 1].text)
                   /\ inj_out[i + 1].text = inj_src[SourceCount(inj_out, i + 1)]
                   /\ ClassOfTarget(inj_out[i + 1].text) = class
                   /\ inj_out[i + 2].injected
                   /\ inj_out[i + 2].text = EndOf(class)
                \/ /\ inj_out[i].text = EndOf(class)
                   /\ i >= 3
                   /\ inj_out[i - 2].injected
                   /\ inj_out[i - 2].text = StartOf(class)
                   /\ ~inj_out[i - 1].injected
        /\ (~inj_out[i].injected /\ IsDirective(inj_out[i].text)) =>
             /\ i >= 2 /\ i + 1 <= Len(inj_out)
             /\ inj_out[i - 1].injected /\ inj_out[i + 1].injected
             /\ inj_out[i - 1].text = StartOf(ClassOfTarget(inj_out[i].text))

\* C7 witness: a library include and a project include were both bracketed.
C7_Witness ==
    /\ \E i \in 1..Len(inj_out) :
          inj_out[i].injected /\ inj_out[i].text = EndOf("Sys")
    /\ \E i \in 1..Len(inj_out) :
          inj_out[i].injected /\ inj_out[i].text = EndOf("Usr")

\* C8: a directive whose target opens with neither '<' nor a quote makes
\* line_by_line raise TaskException at that line: such a line is never
\* yielded or passed over, what was yielded is the output of the lines before
\* it and nothing more, and after the error nothing is yielded.
C8_BareDirectiveRaises ==
    /\ [](\A j \in 1..Len(inj_out) : ~IsBareDirective(inj_out[j].text))
    /\ [](\A k \in 1..inj_i : ~IsBareDirective(inj_src[k]))
    /\ [](inj_pc = "raised" =>
            /\ inj_i < Len(inj_src)
            /\ IsBareDirective(inj_src[inj_i + 1])
            /\ StripInjected(inj_out) = SubSeq(inj_src, 1, inj_i)
            /\ Len(inj_out) =
                 inj_i + 2 * NumDirectives(SubSeq(inj_src, 1, inj_i)))
    /\ [](inj_pc = "done" => inj_i = Len(inj_src))
    /\ [][inj_pc = "raised" => UNCHANGED inj_vars]_vars

\* C8 witness: the error was raised after a bracketed directive, with lines
\* of the source still to come.
C8_Witness ==
    /\ inj_pc = "raised"
    /\ inj_i = 1 /\ Len(inj_out) = 3
    /\ Len(inj_src) = 3

(***************************************************************************)
(* Claims about CWorkingState.                                             *)
(***************************************************************************)
\* Neither table holds a row with found_in = filename.
NoRowsOf(filename) ==
    /\ \A r \in BagToSet(c_symbol) : r.found_in # filename
    /\ \A r \in BagToSet(c_prerequisite) : r.found_in # filename

\* C10: after remove_c_file(f) the store holds no definition row and no
\* prerequisite row with found_in = f; calling it again for f right away, or
\* calling it for a file that has no rows, leaves both tables as they are.
C10_RemoveIdempotent ==
    /\ [](st_last.op = "remove" => NoRowsOf(st_last.file))
    /\ [][(st_last'.op = "remove" /\ st_last'.repeated)
            => UNCHANGED <<c_symbol, c_prerequisite>>]_vars
    /\ [][(st_last'.op = "remove" /\ NoRowsOf(st_last'.file))
            => UNCHANGED <<c_symbol, c_prerequisite>>]_vars

\* C10 witness: remove_c_file was called twice in a row for a file, the first
\* call having deleted rows, other files' rows being in the store.
C10_Witness ==
    /\ st_last.op = "remove" /\ st_last.repeated /\ st_last.prior
    /\ c_symbol # EmptyBag /\ c_prerequisite # EmptyBag


\* The records of a list that belong to files other than f.
RECURSIVE OfOtherFiles(_, _)
OfOtherFiles(infos, f) ==
    IF infos = <<>> THEN <<>>
    ELSE IF Head(infos).symbol.found_in = f
         THEN OfOtherFiles(Tail(infos), f)
         ELSE <<Head(infos)>> \o OfOtherFiles(Tail(infos), f)

\* The rows of f are gone from the table after the step and every other
\* row has the copies it had.
RowsFramed(before, after, f) ==
    \A r \in DOMAIN before \cup DOMAIN after :
        CopiesIn(r, after) = IF r.found_in = f THEN 0 ELSE CopiesIn(r, before)

\* What get_symbol and the iteration return for definitions of files other
\* than f is the same after the step as before it.
ReadsFramed(f) ==
    /\ \A n \in SymbolNames :
          OfOtherFiles(GetSymbol(c_symbol', c_prerequisite', n).info_list, f)
            = OfOtherFiles(GetSymbol(c_symbol, c_prerequisite, n).info_list,
                           f)
    /\ OfOtherFiles(Iterate(c_symbol', c_prerequisite'), f)
         = OfOtherFiles(Iterate(c_symbol, c_prerequisite), f)

\* The identifiers depends_on yields for a symbol, before and after a step.
YieldedBefore(id) == DOMAIN DependsOn(c_symbol, c_prerequisite, id)

YieldedAfter(id) == DOMAIN DependsOn(c_symbol', c_prerequisite', id)

\* C11 as stated: remove_c_file(f) deletes every definition and prerequisite
\* row of f and leaves the rows of other files unchanged; get_symbol and
\* the iteration return the same for definitions in other files, and
\* depends_on yields the same for them except that every prerequisite that
\* was resolved to f is yielded as unresolved.
C11_ResolvedToFileBecomeUnresolved ==
    [][ st_last'.op = "remove" =>
          LET f == st_last'.file IN
          /\ RowsFramed(c_symbol, c_symbol', f)
          /\ RowsFramed(c_prerequisite, c_prerequisite', f)
          /\ ReadsFramed(f)
          /\ \A n \in SymbolNames, g \in FileNames \ {f} :
                LET id == CSymbolID(n, g) IN
                YieldedAfter(id) =
                    { x \in YieldedBefore(id) : x.found_in # f }
                      \cup { CSymbolUnresolvedID(x.name) :
                               x \in { y \in YieldedBefore(id) :
                                          y.found_in = f } } ]_vars

\* C11, amended: as above, except that a prerequisite that was resolved to
\* f is yielded as unresolved only when no other file defines it; when
\* another file defines it too, depends_on just no longer yields it with f.
C11_RemoveFrame ==
    [][ st_last'.op = "remove" =>
          LET f == st_last'.file IN
          /\ RowsFramed(c_symbol, c_symbol', f)
          /\ RowsFramed(c_prerequisite, c_prerequisite', f)
          /\ ReadsFramed(f)
          /\ \A n \in SymbolNames, g \in FileNames \ {f} :
                LET id == CSymbolID(n, g) IN
                YieldedAfter(id) =
                    { x \in YieldedBefore(id) : x.found_in # f }
                      \cup { CSymbolUnresolvedID(x.name) :
                               x \in { y \in YieldedBefore(id) :
                                         /\ y.found_in = f
                                         /\ \A z \in YieldedBefore(id) :
                                               z.name = y.name
                                                 => z.found_in = f } } ]_vars

\* C11 witness: remove_c_file(f) has deleted the definition of a name that a
\* definition of another file, still recorded, depends on, and depends_on
\* now yields that name as unresolved.
C11_Witness ==
    /\ st_last.op = "remove"
    /\ \E s \in DOMAIN c_symbol, p \in st_last.lost :
          /\ s.found_in # st_last.file
          /\ CSymbolUnresolvedID(p)
               \in DOMAIN DependsOn(c_symbol, c_prerequisite,
                                    CSymbolID(s.symbol, s.found_in))

\* The files that define a name, and the prerequisite names recorded for a
\* (name, file) pair.
DefinedIn(name) ==
    { s.found_in : s \in { x \in DOMAIN c_symbol : x.symbol = name } }

Recorded(name, file) ==
    { r.prerequisite :
        r \in { x \in DOMAIN c_prerequisite :
                   x.symbol = name /\ x.found_in = file } }

Range(seq) == { seq[i] : i \in 1..Len(seq) }

\* The prerequisite rows recorded for a (name, file) pair, as a bag.
RecordedRows(name, file) ==
    [ r \in { x \in DOMAIN c_prerequisite :
                x.symbol = name /\ x.found_in = file }
        |-> c_prerequisite[r] ]

\* A list of prerequisites is the list recorded for a (name, file) pair: it
\* holds the names recorded for the pair, each as often as it was recorded,
\* and nothing else.
IsRecordedList(depends_on, name, file) ==
    /\ Range(depends_on) = Recorded(name, file)
    /\ Len(depends_on) = BagCardinality(RecordedRows(name, file))

\* C12: whenever a definition (n, f) and a prerequisite p of it are recorded
\* (they were added and f has not been removed since, whatever else was
\* added or removed), get_symbol(n) returns one record for each distinct
\* file that defines n and no other, and the record of every such file
\* carries the full list of the prerequisite names recorded for that
\* (name, file) pair; so the record for f carries p.
C12_GetSymbolFullLists ==
    \A n \in SymbolNames :
        (\E f \in DefinedIn(n) : Recorded(n, f) # {}) =>
            LET result == GetSymbol(c_symbol, c_prerequisite, n)
                infos == result.info_list
            IN  /\ result.raised = ""
                /\ Len(infos) = Cardinality(DefinedIn(n))
                /\ { infos[i].symbol : i \in 1..Len(infos) }
                     = { CSymbolID(n, f) : f \in DefinedIn(n) }
                /\ \A i \in 1..Len(infos) :
                      IsRecordedList(infos[i].depends_on, n,
                                     infos[i].symbol.found_in)

\* C13: depends_on((n, f)) yields exactly, for each prerequisite name p
\* recorded for (n, f), the resolved identifier (p, g) of every file g that
\* defines p, and the unresolved identifier p when no file defines p: never
\* an unresolved identifier for a defined name, a resolved one for an
\* undefined name or a file that does not define it, or a name recorded
\* only for another (name, file) pair.
C13_DependsOnResolves ==
    \A n \in SymbolNames, f \in FileNames :
        DOMAIN DependsOn(c_symbol, c_prerequisite, CSymbolID(n, f))
          = { CSymbolID(s.symbol, s.found_in) :
                s \in { x \in DOMAIN c_symbol :
                          x.symbol \in Recorded(n, f) } }
              \cup { CSymbolUnresolvedID(p) :
                       p \in { x \in Recorded(n, f) : DefinedIn(x) = {} } }

\* C13 witness: depends_on yields a resolved identifier for a symbol while
\* another (name, file) pair has a prerequisite recorded that it does not
\* yield, as that name is recorded only for the other pair.
C13_Witness ==
    \E n \in SymbolNames, f \in FileNames :
        LET yielded == DOMAIN DependsOn(c_symbol, c_prerequisite,
                                        CSymbolID(n, f))
        IN  /\ \E id \in yielded : id.found_in # NULL
            /\ \E r \in DOMAIN c_prerequisite :
                  /\ <<r.symbol, r.found_in>> # <<n, f>>
                  /\ \A id \in yielded : id.name # r.prerequisite

\* C14: get_symbol(name) raises WorkingStateException for every name that
\* has no definition row, whether it was never added, every file defining
\* it was removed, or only prerequisite rows mention it; and whenever it
\* returns, the list is not empty.
C14_UnknownSymbolRaises ==
    \A n \in SymbolNames :
        LET result == GetSymbol(c_symbol, c_prerequisite, n)
        IN  /\ DefinedIn(n) = {} => result.raised = "WorkingStateException"
            /\ result.raised = "" => result.info_list # <<>>

\* C14 witness: the only file defining a name has been removed and
\* prerequisite rows of another file still mention the name, as a symbol
\* and as a prerequisite; get_symbol raises for it.
C14_Witness ==
    /\ st_last.op = "remove" /\ st_last.removed
    /\ \E n \in st_last.lost :
          /\ DefinedIn(n) = {}
          /\ \E r \in DOMAIN c_prerequisite : r.symbol = n
          /\ GetSymbol(c_symbol, c_prerequisite, n).raised
               = "WorkingStateException"

\* The order of the iteration: by symbol name, then by file.
IdLess(a, b) ==
    \/ ColumnRank(a.name) < ColumnRank(b.name)
    \/ a.name = b.name /\ ColumnRank(a.found_in) < ColumnRank(b.found_in)

\* C15: the full iteration yields exactly one record for each distinct
\* (symbol, file) definition, in ascending order of symbol name and then of
\* file, and each record carries exactly the prerequisite names recorded
\* for its pair, in ascending order of name.
C15_IterationExact ==
    LET infos == Iterate(c_symbol, c_prerequisite) IN
    /\ { infos[i].symbol : i \in 1..Len(infos) }
         = { CSymbolID(s.symbol, s.found_in) : s \in DOMAIN c_symbol }
    /\ \A i, j \in 1..Len(infos) :
          i < j => IdLess(infos[i].symbol, infos[j].symbol)
    /\ \A i \in 1..Len(infos) :
          /\ IsRecordedList(infos[i].depends_on, infos[i].symbol.name,
                            infos[i].symbol.found_in)
          /\ \A j, k \in 1..Len(infos[i].depends_on) :
                j < k => ColumnRank(infos[i].depends_on[j])
                           <= ColumnRank(infos[i].depends_on[k])

Occurrences(seq, x) == Cardinality({ k \in 1..Len(seq) : seq[k] = x })

\* The list of prerequisites of a record holds no None entry and no name
\* more often than add_c_dependency recorded it for the record's pair.
OnlyRecorded(info) ==
    /\ \A k \in 1..Len(info.depends_on) : info.depends_on[k] # NULL
    /\ \A p \in Range(info.depends_on) \ {NULL} :
          Occurrences(info.depends_on, p)
            <= CopiesIn([symbol |-> info.symbol.name,
                         found_in |-> info.symbol.found_in,
                         prerequisite |-> p], c_prerequisite)

\* C25: in every store state, also after add_c_symbol was called more than
\* once for one (name, file) with no remove_c_file in between, every list
\* of prerequisites that get_symbol and the full iteration return holds
\* only names passed to add_c_dependency for its (name, file) pair, never a
\* None entry and never a name more often than it was recorded.
C25_OnlyRecordedPrerequisites ==
    /\ \A n \in SymbolNames :
          \A info \in Range(GetSymbol(c_symbol, c_prerequisite, n).info_list) :
              OnlyRecorded(info)
    /\ \A info \in Range(Iterate(c_symbol, c_prerequisite)) :
          OnlyRecorded(info)

\* The rows of a file in a table.
RowsOfIn(table, f) ==
    [ r \in { x \in DOMAIN table : x.found_in = f } |-> table[r] ]

\* C19: whatever statements of remove_c_file(f) have run when it fails or is
\* interrupted, and when it completes, definition rows of f are deleted only
\* in a step that leaves no prerequisite row of f: a prerequisite row of f
\* never outlives the deletion of the definitions of f.
C19_PrerequisitesGoFirst ==
    [][ \A f \in FileNames :
          (\E s \in DOMAIN c_symbol :
              s.found_in = f /\ CopiesIn(s, c_symbol') < c_symbol[s])
            => RowsOfIn(c_prerequisite', f) = EmptyBag ]_vars

\* C19 witness: remove_c_file(f) failed after its first statement: rows
\* were deleted, and definition rows of f are still there.
C19_Witness ==
    /\ st_last.op = "remove failed" /\ st_last.removed
    /\ RowsOfIn(c_symbol, st_last.file) # EmptyBag

(***************************************************************************)
(* Claims about workers on different files.                                *)
(***************************************************************************)

\* The units run so far, put in the order of their file names.
RECURSIVE InFileOrder(_, _)
InFileOrder(units, order) ==
    IF order = <<>> THEN <<>>
    ELSE LET here == { j \in 1..Len(units) : units[j].file = Head(order) }
         IN  (IF here = {} THEN <<>> ELSE <<units[CHOOSE j \in here : TRUE]>>)
                \o InFileOrder(units, Tail(order))

C16_ReanalysisIdempotent ==
    /\ [](st_last.op = "analyse" =>
            LET f == st_last.file IN
            /\ RowsOfIn(c_symbol, f)
                 = RowsOfIn(WalkPreorder(EmptyBag, f), f)
            /\ RowsOfIn(c_prerequisite, f)
                 = RowsOfIn(WalkPreorder(EmptyBag, f), f))
    /\ [][(st_last.op = "analyse" /\ st_last'.op = "analyse"
             /\ st_last'.file = st_last.file)
          => /\ c_symbol' = c_symbol
             /\ c_prerequisite' = c_prerequisite
             /\ Iterate(c_symbol', c_prerequisite')
                  = Iterate(c_symbol, c_prerequisite)]_vars

\* C16 witness: the file has been analysed twice in a row, the first run
\* removed rows recorded for it earlier, and rows of another file are
\* still in the store.
C16_Witness ==
    /\ st_last.op = "analyse" /\ st_last.repeated /\ st_last.prior
    /\ \E s \in DOMAIN c_symbol : s.found_in # st_last.file

\* C18: after CAnalyser.run on a file the store holds a definition row for
\* each function the file defines with external linkage, and a prerequisite
\* row of the file for each function it only declares from a project
\* header, and none for a function declared in a library header.
C18_RunRecordsSymbols ==
    st_last.op = "analyse" =>
        LET f == st_last.file IN
        /\ \A n \in SourceFiles[f].defines :
              [symbol |-> n, found_in |-> f] \in DOMAIN c_symbol
        /\ \A d \in SourceFiles[f].project :
              \E r \in DOMAIN c_prerequisite :
                  r.found_in = f /\ r.prerequisite = d
        /\ \A d \in SourceFiles[f].library :
              \A r \in DOMAIN c_prerequisite :
                  r.found_in = f => r.prerequisite # d

Ascending(seq) == \A j, k \in 1..Len(seq) : j < k => seq[j] < seq[k]

\* The lists of a scan's result for a provenance class.
ListsOf(found, class) ==
    IF class = "Sys" THEN found.sys_includes ELSE found.usr_includes

OtherClass(class) == IF class = "Sys" THEN "Usr" ELSE "Sys"

\* The result of a scan gives, for every directive of the text, the line
\* before it once among the start lines of its class and the line after it
\* once among the end lines of its class, and neither among the lines of
\* the other class; and every list is in the order of the text.
RoundTrips(found) ==
    /\ \A i \in 1..Len(inj_out) :
          (~inj_out[i].injected /\ IsDirective(inj_out[i].text)) =>
              LET class == ClassOfTarget(inj_out[i].text)
                  own == ListsOf(found, class)
                  other == ListsOf(found, OtherClass(class))
              IN  /\ Occurrences(own.start, i - 1) = 1
                  /\ Occurrences(own.end, i + 1) = 1
                  /\ \A l \in {i - 1, i + 1} :
                        /\ Occurrences(other.start, l) = 0
                        /\ Occurrences(other.end, l) = 0
    /\ \A class \in {"Sys", "Usr"} :
          /\ Ascending(ListsOf(found, class).start)
          /\ Ascending(ListsOf(found, class).end)

\* C17: for every source whose include directives are all well formed,
\* CAnalyser.run over the tokens of what CPragmaInjector yields recovers,
\* for each directive in order, one start line and one end line in the
\* lists of the directive's provenance class and none in the other class.
C17_RoundTrip == recovered.done => RoundTrips(recovered)

\* The names of the four markers.
MarkerNames ==
    {"SysIncludeStart", "SysIncludeEnd", "UsrIncludeStart", "UsrIncludeEnd"}

\* The list of a scan's result in which the lines of a marker are recorded.
ListFor(found, name) ==
    IF name = "SysIncludeStart" THEN found.sys_includes.start
    ELSE IF name = "SysIncludeEnd" THEN found.sys_includes.end
    ELSE IF name = "UsrIncludeStart" THEN found.usr_includes.start
    ELSE found.usr_includes.end

\* The four tokens from position k on are "#", "pragma", "FAB" and the name.
MarkerAt(tokens, k, name) ==
    /\ k + 3 <= Len(tokens)
    /\ [ i \in 1..4 |-> tokens[k + i - 1].spelling ]
          = <<"#", "pragma", "FAB", name>>

\* The number of occurrences of a marker on a line.
MarkersOn(tokens, name, line) ==
    Cardinality({ k \in 1..Len(tokens) :
                    MarkerAt(tokens, k, name) /\ tokens[k + 2].line = line })

\* Every occurrence of a marker in the tokens is recorded once in the list
\* of its name, and nothing else is recorded in any list.
RecordsMarkers(found, tokens) ==
    \A name \in MarkerNames :
        /\ \A j \in 1..Len(ListFor(found, name)) :
              ListFor(found, name)[j] \in 1..Len(inj_out)
        /\ \A line \in 1..Len(inj_out) :
              Occurrences(ListFor(found, name), line)
                 = MarkersOn(tokens, name, line)

\* C21: when CAnalyser.run has been run over the tokens of a text, every
\* occurrence of four consecutive tokens "#", "pragma", "FAB", X with X one
\* of the four marker names, wherever it stands in the stream, has its line
\* once in the list for X and in no other list, and no other window of
\* tokens has recorded anything.
C21_EveryMarkerOnce ==
    recovered.done => RecordsMarkers(recovered, GetTokens(inj_out, 1))

====
